---- MODULE Spec2Model ----
(***************************************************************************)
(* Request-authorization core of wg-portal (cmd/wg-portal/ui/handler.go):  *)
(* provider setup (NewHandler / setupAuthProviders), the authentication    *)
(* middleware, and the error reporter (HandleError).                       *)
(*                                                                         *)
(* Two specifications share the variables:                                 *)
(*   Spec       request serving on a handler that was set up               *)
(*   SpecSetup  NewHandler on every bounded configuration                  *)
(***************************************************************************)
EXTENDS Integers, Sequences, FiniteSets, TLC

\* ------------------------------------------------------------------ bounds

\* Largest number of provider entries (OIDC + OAuth + LDAP) in a configuration.
MaxEntries == 3

\* Concurrent request-handling flows, client sessions, backend users.
Requests == {"r1"}
Sessions == {"s1"}
Users == {"alice"}

\* ------------------------------------------------------------------ values

\* http.StatusSeeOther, http.StatusUnauthorized, http.StatusNotFound.
StatusSeeOther == 303
StatusUnauthorized == 401
StatusNotFound == 404

\* Status codes a caller hands to HandleError: not found, and an internal failure.
ErrorCodes == {StatusNotFound, 500}

NoUser == ""

\* A request target: c.Request.URL.Path and the raw query; c.Request.RequestURI
\* is the pair (path and query), c.Request.URL.Path the path alone.
\* Two targets under the admin group and one no route is registered for.
AdminTargets ==
    { [path |-> "/admin/", query |-> ""],
      [path |-> "/admin/users", query |-> "page=2"] }

UnroutedTargets == { [path |-> "/missing", query |-> ""] }

RequestURI(t) == <<t.path, t.query>>

URLPath(t) == t.path

\* The empty string as a deep-link.
NoDeepLink == <<"", "">>

\* A nil *ErrorData.
NoError == [Message |-> "", Details |-> <<>>, Code |-> 0, Path |-> ""]

\* Scopes a middleware instance may be built with: "" (any authenticated user),
\* "admin", and some other non-empty string.
Scopes == {"", "admin", "user"}

\* SessionData: the zero value GetData returns for a session that does not exist.
ZeroSession ==
    [ LoggedIn |-> FALSE, UserIdentifier |-> NoUser, IsAdmin |-> FALSE,
      DeepLink |-> NoDeepLink, Error |-> NoError ]

NoResponse == [status |-> 0, text |-> ""]

Response(status, text) == [status |-> status, text |-> text]

LoginRedirect == Response(StatusSeeOther, "/auth/login")
NotEnoughPermissions == Response(StatusUnauthorized, "unauthorized: not enough permissions")
SessionNoLongerAvailable == Response(StatusUnauthorized, "unauthorized: session no longer available")
OopsRedirect == Response(StatusSeeOther, "/oops")
HandlerRendered == Response(200, "page")

VARIABLES
    session,      \* Session Store: session id -> SessionData
    userState,    \* backend: user -> "active" | "inactive" | "deleted"
    hist,         \* per session: what the middleware did since the last login/logout
    pc,           \* per request: position in the gin handler chain
    req,          \* per request: its locals (gin.Context, the middleware's variables)
    config,       \* common.Config: Core.ExternalUrl, Auth.OpenIDConnect, Auth.OAuth, Auth.Ldap
    setupPc,      \* position of NewHandler / setupAuthProviders
    setupIdx,     \* loop variable i of the running provider loop
    oauthAuthenticators,  \* h.oauthAuthenticators: provider id -> authenticator
    ldapAuthenticators,   \* h.ldapAuthenticators: provider id -> authenticator
    ctxExpired,   \* the setup context's deadline has passed
    calls,        \* constructor invocations so far, in order: <<family, index>>
    ret           \* what NewHandler returned: the handler (or nil) and the error

requestVars == <<session, userState, hist, pc, req>>

setupVars == <<config, setupPc, setupIdx, oauthAuthenticators, ldapAuthenticators,
               ctxExpired, calls, ret>>

vars == <<session, userState, hist, pc, req, config, setupPc, setupIdx,
          oauthAuthenticators, ldapAuthenticators, ctxExpired, calls, ret>>

\* ------------------------------------------------------------ request state

\* gin's handler chain of a route: the admin group runs the authentication
\* middleware before the route's handler; an unknown path runs the NoRoute handler.
ChainOf(route) ==
    IF route = "guarded" THEN <<"authenticationMiddleware", "handler">>
    ELSE <<"noRoute">>

\* hist values: "fresh" (nothing since the last login/logout), "passed" (a request
\* of this login reached the protected handler), "revoked" (the middleware
\* destroyed the session).
NoHist == "fresh"

\* HandleError was not called: its (code, err, details) arguments.
NoErrorCall == [code |-> 0, message |-> "", details |-> <<>>]

IdleRequest ==
    [ sess |-> "s1", target |-> [path |-> "/admin/", query |-> ""],
      route |-> "guarded", scope |-> "admin",
      index |-> 0,            \* gin.Context.index
      aborted |-> FALSE,      \* c.Abort() was called (index = abortIndex)
      read |-> ZeroSession,   \* what GetData returned to this request
      data |-> ZeroSession,   \* the local SessionData (session / currentSession)
      stored |-> ZeroSession, \* the store's record right after this request's
                              \* last SetData / DestroyData call
      asked |-> NoUser,       \* the identifier GetActiveUser was called with
      answer |-> "none",      \* what GetActiveUser returned to this request
      queries |-> 0,          \* GetActiveUser calls made by this request
      sets |-> 0,             \* SetData calls made by this request
      destroys |-> 0,         \* DestroyData calls made by this request
      handled |-> 0,          \* times gin ran the protected handler
      mwResp |-> NoResponse,  \* response written by the middleware
      hResp |-> NoResponse,   \* response written by the handler / HandleError
      errCall |-> NoErrorCall, \* the arguments HandleError was called with
      errRead |-> ZeroSession, \* what GetData returned to HandleError
      seen |-> NoHist ]       \* hist of the session when GetData read it

InitRequests ==
    /\ session = [s \in Sessions |-> ZeroSession]
    /\ userState = [u \in Users |-> "active"]
    /\ hist = [s \in Sessions |-> NoHist]
    /\ pc = [r \in Requests |-> "idle"]
    /\ req = [r \in Requests |-> IdleRequest]

\* ------------------------------------------------------------ Session Store

GetData(s) == session[s]

SetData(s, data) == [session EXCEPT ![s] = data]

DestroyData(s) == [session EXCEPT ![s] = ZeroSession]

\* ---------------------------------------------------------- Validity Oracle

\* backend.GetActiveUser(id): the outcomes the backend can produce for id now.
\* "ok" is err == nil; every other value is a non-nil error.
GetActiveUser(id) ==
    IF id \in Users /\ userState[id] = "active" THEN {"ok", "backend_error"}
    ELSE IF id \in Users /\ userState[id] = "inactive" THEN {"inactive", "backend_error"}
    ELSE {"not_found", "backend_error"}

\* Variant: the error test is inverted (err == nil is taken as invalid).
isUserStillValid_Inverted(answer) == answer # "ok"

\* Variant: only the "not found" and "inactive" errors invalidate; any other
\* backend error is taken as valid.
isUserStillValid_FailOpen(answer) == answer \in {"ok", "backend_error"}

\* err == nil
isUserStillValid(answer) == answer = "ok"

\* ------------------------------------------------------------ gin dispatch

\* A request arrives: gin builds the chain of its route and runs handlers[0].
NewRequest(r, s, t, route, scope) ==
    /\ pc[r] \in {"idle", "done"}
    /\ req' = [req EXCEPT ![r] = [IdleRequest EXCEPT !.sess = s, !.target = t,
                                      !.route = route, !.scope = scope]]
    /\ pc' = [pc EXCEPT ![r] = IF route = "guarded" THEN "mw" ELSE "noroute"]
    /\ UNCHANGED <<session, userState, hist>>
    /\ UNCHANGED setupVars

\* A handler function returned: gin's Context.Next advances the index and runs
\* the next handler of the chain, unless the chain was aborted or is exhausted.
ChainContinue(r) ==
    /\ pc[r] = "chain"
    /\ LET next == req[r].index + 1 IN
       IF ~req[r].aborted /\ next < Len(ChainOf(req[r].route))
       THEN /\ req' = [req EXCEPT ![r].index = next, ![r].handled = @ + 1]
            /\ pc' = [pc EXCEPT ![r] = "handler"]
       ELSE /\ req' = req
            /\ pc' = [pc EXCEPT ![r] = "done"]
    /\ UNCHANGED <<session, userState, hist>>
    /\ UNCHANGED setupVars

\* ------------------------------------------------ authenticationMiddleware

\* !session.LoggedIn
NotLoggedIn(data) == ~data.LoggedIn

\* scope == "admin" && !session.IsAdmin
ScopeAdminFails(scope, data) == scope = "admin" /\ ~data.IsAdmin

\* Variant: only the scope "admin" requires an administrator.
ScopeOtherFails_AdminOnly(scope, data) == scope = "admin" /\ ~data.IsAdmin

\* scope != "" && !session.IsAdmin
ScopeOtherFails(scope, data) == scope # "" /\ ~data.IsAdmin

\* session := h.session.GetData(c)
MwGetData(r) ==
    /\ pc[r] = "mw"
    /\ req' = [req EXCEPT ![r].read = GetData(req[r].sess),
                          ![r].data = GetData(req[r].sess),
                          ![r].seen = hist[req[r].sess]]
    /\ pc' = [pc EXCEPT ![r] = "mw_check"]
    /\ UNCHANGED <<session, userState, hist>>
    /\ UNCHANGED setupVars

\* Variant: the not-logged-in branch without c.Abort().
MwNotLoggedIn_NoAbort(r) ==
    /\ pc[r] = "mw_check"
    /\ NotLoggedIn(req[r].data)
    /\ LET data == [req[r].data EXCEPT !.DeepLink = RequestURI(req[r].target)] IN
       /\ session' = SetData(req[r].sess, data)
       /\ req' = [req EXCEPT ![r].data = data,
                             ![r].stored = session'[req[r].sess],
                             ![r].sets = @ + 1,
                             ![r].mwResp = LoginRedirect]
    /\ pc' = [pc EXCEPT ![r] = "chain"]
    /\ UNCHANGED <<userState, hist>>
    /\ UNCHANGED setupVars

\* Variant: the deep-link is stored in a new SessionData instead of the one
\* GetData returned.
MwNotLoggedIn_FreshSession(r) ==
    /\ pc[r] = "mw_check"
    /\ NotLoggedIn(req[r].data)
    /\ LET data == [ZeroSession EXCEPT !.DeepLink = RequestURI(req[r].target)] IN
       /\ session' = SetData(req[r].sess, data)
       /\ req' = [req EXCEPT ![r].data = data,
                             ![r].stored = session'[req[r].sess],
                             ![r].sets = @ + 1,
                             ![r].aborted = TRUE,
                             ![r].mwResp = LoginRedirect]
    /\ pc' = [pc EXCEPT ![r] = "chain"]
    /\ UNCHANGED <<userState, hist>>
    /\ UNCHANGED setupVars

\* if !session.LoggedIn { DeepLink = RequestURI; SetData; Abort; Redirect; return }
MwNotLoggedIn(r) ==
    /\ pc[r] = "mw_check"
    /\ NotLoggedIn(req[r].data)
    /\ LET data == [req[r].data EXCEPT !.DeepLink = RequestURI(req[r].target)] IN
       /\ session' = SetData(req[r].sess, data)
       /\ req' = [req EXCEPT ![r].data = data,
                             ![r].stored = session'[req[r].sess],
                             ![r].sets = @ + 1,
                             ![r].aborted = TRUE,
                             ![r].mwResp = LoginRedirect]
    /\ pc' = [pc EXCEPT ![r] = "chain"]
    /\ UNCHANGED <<userState, hist>>
    /\ UNCHANGED setupVars

\* Variant: the "admin" scope branch answers with a redirect to the login page.
MwScopeAdmin_Redirect(r) ==
    /\ pc[r] = "mw_check"
    /\ ~NotLoggedIn(req[r].data)
    /\ ScopeAdminFails(req[r].scope, req[r].data)
    /\ req' = [req EXCEPT ![r].aborted = TRUE,
                          ![r].mwResp = LoginRedirect]
    /\ pc' = [pc EXCEPT ![r] = "chain"]
    /\ UNCHANGED <<session, userState, hist>>
    /\ UNCHANGED setupVars

\* if scope == "admin" && !session.IsAdmin { Abort; 401; return }
MwScopeAdmin(r) ==
    /\ pc[r] = "mw_check"
    /\ ~NotLoggedIn(req[r].data)
    /\ ScopeAdminFails(req[r].scope, req[r].data)
    /\ req' = [req EXCEPT ![r].aborted = TRUE,
                          ![r].mwResp = NotEnoughPermissions]
    /\ pc' = [pc EXCEPT ![r] = "chain"]
    /\ UNCHANGED <<session, userState, hist>>
    /\ UNCHANGED setupVars

\* if scope != "" && !session.IsAdmin { Abort; 401; return }
MwScopeOther(r) ==
    /\ pc[r] = "mw_check"
    /\ ~NotLoggedIn(req[r].data)
    /\ ~ScopeAdminFails(req[r].scope, req[r].data)
    /\ ScopeOtherFails(req[r].scope, req[r].data)
    /\ req' = [req EXCEPT ![r].aborted = TRUE,
                          ![r].mwResp = NotEnoughPermissions]
    /\ pc' = [pc EXCEPT ![r] = "chain"]
    /\ UNCHANGED <<session, userState, hist>>
    /\ UNCHANGED setupVars

\* Variant: a session that already passed once is not revalidated again.
MwRevalidate_Cached(r) ==
    /\ pc[r] = "mw_check"
    /\ ~NotLoggedIn(req[r].data)
    /\ ~ScopeAdminFails(req[r].scope, req[r].data)
    /\ ~ScopeOtherFails(req[r].scope, req[r].data)
    /\ IF hist[req[r].sess] = "passed"
       THEN /\ req' = req
            /\ pc' = [pc EXCEPT ![r] = "mw_next"]
       ELSE \E answer \in GetActiveUser(req[r].data.UserIdentifier) :
              /\ req' = [req EXCEPT ![r].answer = answer, ![r].queries = @ + 1,
                                    ![r].asked = req[r].data.UserIdentifier]
              /\ pc' = [pc EXCEPT ![r] = IF isUserStillValid(answer)
                                         THEN "mw_next" ELSE "mw_destroy"]
    /\ UNCHANGED <<session, userState, hist>>
    /\ UNCHANGED setupVars

\* Variant: the identifier to revalidate is read from the store again.
MwRevalidate_UsesStore(r) ==
    /\ pc[r] = "mw_check"
    /\ ~NotLoggedIn(req[r].data)
    /\ ~ScopeAdminFails(req[r].scope, req[r].data)
    /\ ~ScopeOtherFails(req[r].scope, req[r].data)
    /\ \E answer \in GetActiveUser(GetData(req[r].sess).UserIdentifier) :
         /\ req' = [req EXCEPT ![r].answer = answer, ![r].queries = @ + 1,
                               ![r].asked = GetData(req[r].sess).UserIdentifier]
         /\ pc' = [pc EXCEPT ![r] = IF isUserStillValid(answer)
                                    THEN "mw_next" ELSE "mw_destroy"]
    /\ UNCHANGED <<session, userState, hist>>
    /\ UNCHANGED setupVars

\* Variant: the user is revalidated before the scope checks.
MwRevalidate_BeforeScope(r) ==
    /\ pc[r] = "mw_check"
    /\ ~NotLoggedIn(req[r].data)
    /\ \E answer \in GetActiveUser(req[r].data.UserIdentifier) :
         /\ req' = [req EXCEPT ![r].answer = answer, ![r].queries = @ + 1,
                               ![r].asked = req[r].data.UserIdentifier]
         /\ pc' = [pc EXCEPT ![r] = IF isUserStillValid(answer)
                                    THEN "mw_next" ELSE "mw_destroy"]
    /\ UNCHANGED <<session, userState, hist>>
    /\ UNCHANGED setupVars

\* The scope checks did not return: h.isUserStillValid(session.UserIdentifier)
MwRevalidate(r) ==
    /\ pc[r] = "mw_check"
    /\ ~NotLoggedIn(req[r].data)
    /\ ~ScopeAdminFails(req[r].scope, req[r].data)
    /\ ~ScopeOtherFails(req[r].scope, req[r].data)
    /\ \E answer \in GetActiveUser(req[r].data.UserIdentifier) :
         /\ req' = [req EXCEPT ![r].answer = answer, ![r].queries = @ + 1,
                               ![r].asked = req[r].data.UserIdentifier]
         /\ pc' = [pc EXCEPT ![r] = IF isUserStillValid(answer)
                                    THEN "mw_next" ELSE "mw_destroy"]
    /\ UNCHANGED <<session, userState, hist>>
    /\ UNCHANGED setupVars

\* Variant: the failed-revalidation branch without h.session.DestroyData(c).
MwDestroy_NoDestroy(r) ==
    /\ pc[r] = "mw_destroy"
    /\ session' = session
    /\ hist' = [hist EXCEPT ![req[r].sess] = "revoked"]
    /\ req' = [req EXCEPT ![r].stored = session'[req[r].sess],
                          ![r].aborted = TRUE,
                          ![r].mwResp = SessionNoLongerAvailable]
    /\ pc' = [pc EXCEPT ![r] = "chain"]
    /\ UNCHANGED userState
    /\ UNCHANGED setupVars

\* Variant: the failed-revalidation branch without c.Abort().
MwDestroy_NoAbort(r) ==
    /\ pc[r] = "mw_destroy"
    /\ session' = DestroyData(req[r].sess)
    /\ hist' = [hist EXCEPT ![req[r].sess] = "revoked"]
    /\ req' = [req EXCEPT ![r].destroys = @ + 1,
                          ![r].stored = session'[req[r].sess],
                          ![r].mwResp = SessionNoLongerAvailable]
    /\ pc' = [pc EXCEPT ![r] = "chain"]
    /\ UNCHANGED userState
    /\ UNCHANGED setupVars

\* if !valid { DestroyData; Abort; 401 "session no longer available"; return }
MwDestroy(r) ==
    /\ pc[r] = "mw_destroy"
    /\ session' = DestroyData(req[r].sess)
    /\ hist' = [hist EXCEPT ![req[r].sess] = "revoked"]
    /\ req' = [req EXCEPT ![r].destroys = @ + 1,
                          ![r].stored = session'[req[r].sess],
                          ![r].aborted = TRUE,
                          ![r].mwResp = SessionNoLongerAvailable]
    /\ pc' = [pc EXCEPT ![r] = "chain"]
    /\ UNCHANGED userState
    /\ UNCHANGED setupVars

\* c.Next(): the rest of the chain runs inside the middleware.
MwNext(r) ==
    /\ pc[r] = "mw_next"
    /\ req' = [req EXCEPT ![r].index = @ + 1, ![r].handled = @ + 1]
    /\ pc' = [pc EXCEPT ![r] = "handler"]
    /\ UNCHANGED <<session, userState, hist>>
    /\ UNCHANGED setupVars

\* ------------------------------------------------------------- HandleError

\* Variant: the path of the request is kept for every status code.
ErrorPayload_KeepsPath(t, code, message, details) ==
    [ Message |-> message, Details |-> details, Code |-> code,
      Path |-> URLPath(t) ]

\* currentSession := GetData(c); currentSession.Error = &ErrorData{...};
\* if code == http.StatusNotFound { currentSession.Error.Path = "/" }
ErrorPayload(t, code, message, details) ==
    [ Message |-> message, Details |-> details, Code |-> code,
      Path |-> IF code = StatusNotFound THEN "/" ELSE URLPath(t) ]

\* Variant: the payload is attached to a new SessionData instead of the one
\* GetData returned.
HandleError_FreshSession(r, code, message, details) ==
    /\ LET currentSession ==
             [ZeroSession EXCEPT
                !.Error = ErrorPayload(req[r].target, code, message, details)]
       IN  /\ session' = SetData(req[r].sess, currentSession)
           /\ req' = [req EXCEPT ![r].sets = @ + 1,
                                 ![r].stored = session'[req[r].sess],
                                 ![r].errCall = [code |-> code, message |-> message,
                                                 details |-> details],
                                 ![r].errRead = GetData(req[r].sess),
                                 ![r].hResp = OopsRedirect]
    /\ pc' = [pc EXCEPT ![r] = "chain"]
    /\ UNCHANGED <<userState, hist>>
    /\ UNCHANGED setupVars

\* h.HandleError(c, code, err, details): GetData, attach the payload, SetData,
\* c.Redirect(http.StatusSeeOther, "/oops")
HandleError(r, code, message, details) ==
    /\ LET currentSession ==
             [GetData(req[r].sess) EXCEPT
                !.Error = ErrorPayload(req[r].target, code, message, details)]
       IN  /\ session' = SetData(req[r].sess, currentSession)
           /\ req' = [req EXCEPT ![r].sets = @ + 1,
                                 ![r].stored = session'[req[r].sess],
                                 ![r].errCall = [code |-> code, message |-> message,
                                                 details |-> details],
                                 ![r].errRead = GetData(req[r].sess),
                                 ![r].hResp = OopsRedirect]
    /\ pc' = [pc EXCEPT ![r] = "chain"]
    /\ UNCHANGED <<userState, hist>>
    /\ UNCHANGED setupVars

\* ---------------------------------------------------------------- handlers

\* g.NoRoute(...): HandleError(c, 404, "Oops...", "Requested page <path> not found")
NoRoute(r) ==
    /\ pc[r] = "noroute"
    /\ HandleError(r, StatusNotFound,
                   "Oops... you have reached the end of the internet",
                   <<"Requested page %s not found", URLPath(req[r].target)>>)


\* The protected handler of an admin route renders its page.
HandlerRender(r) ==
    /\ pc[r] = "handler"
    /\ req' = [req EXCEPT ![r].hResp = HandlerRendered]
    /\ hist' = [hist EXCEPT ![req[r].sess] =
                  IF @ = "fresh" /\ session[req[r].sess] = req[r].data
                  THEN "passed" ELSE @]
    /\ pc' = [pc EXCEPT ![r] = "chain"]
    /\ UNCHANGED <<session, userState>>
    /\ UNCHANGED setupVars

\* The protected handler fails and calls h.HandleError(c, code, err, details).
HandlerFail(r, code) ==
    /\ pc[r] = "handler"
    /\ HandleError(r, code, "handler failed", <<"details">>)

\* ------------------------------------------------------------- environment

\* A login completes on session s for user u.
Login(s, u, admin) ==
    /\ session' = [session EXCEPT ![s] = [@ EXCEPT !.LoggedIn = TRUE,
                                                   !.UserIdentifier = u,
                                                   !.IsAdmin = admin]]
    /\ session'[s] # session[s]
    /\ hist' = [hist EXCEPT ![s] = NoHist]
    /\ UNCHANGED <<userState, pc, req>>
    /\ UNCHANGED setupVars

\* A logout destroys session s.
Logout(s) ==
    /\ session[s].LoggedIn
    /\ session' = DestroyData(s)
    /\ hist' = [hist EXCEPT ![s] = NoHist]
    /\ UNCHANGED <<userState, pc, req>>
    /\ UNCHANGED setupVars

\* The backend's record of user u changes (disabled, deleted, enabled again).
SetUserState(u, st) ==
    /\ userState[u] # st
    /\ userState' = [userState EXCEPT ![u] = st]
    /\ UNCHANGED <<session, hist, pc, req>>
    /\ UNCHANGED setupVars

UserStates == {"active", "inactive", "deleted"}

\* ------------------------------------------------------------------ setup

\* Provider names (OIDC, OAuth) and LDAP URLs a configuration may use: two that
\* differ only in case, and a third.
Identifiers == {"corp", "Corp", "lab"}

\* Variant: the identifier is used as configured, without strings.ToLower.
ToLower_Identity(name) == name

\* strings.ToLower on the identifiers above.
ToLower(name) == IF name = "Corp" THEN "corp" ELSE name

\* Core.ExternalUrl values: one that url.Parse accepts, one it rejects.
ExternalUrls == {"https://vpn.example.com/portal", ":malformed"}

\* url.Parse: the parsed URL's Path, or an error.
UrlParse(raw) ==
    IF raw = ":malformed" THEN [err |-> TRUE, Path |-> ""]
    ELSE [err |-> FALSE, Path |-> "/portal"]

\* path.Join(redirectUrl.Path, "/auth/login/", providerId, "/callback")
RedirectUrl(extUrl, providerId) == <<extUrl.Path, "auth", "login", providerId, "callback">>

SeqsUpTo(n) == UNION { [1..k -> Identifiers] : k \in 0..n }

EmptyRegistry == [id \in {} |-> 0]

NoErr == [kind |-> "nil", name |-> ""]

SetupError(kind, name) == [kind |-> kind, name |-> name]

NothingReturned == [handler |-> "pending", err |-> NoErr]

\* h := &handler{...} with two empty maps; ctx with the 10 s timeout; the call
\* of setupAuthProviders is about to start.
InitSetupState(cfg) ==
    /\ config = cfg
    /\ setupPc = "parse"
    /\ setupIdx = 0
    /\ oauthAuthenticators = EmptyRegistry
    /\ ldapAuthenticators = EmptyRegistry
    /\ ctxExpired = FALSE
    /\ calls = <<>>
    /\ ret = NothingReturned

\* Variant: ctx := context.Background(), a context that never expires.
CtxHasDeadline_Background == FALSE

\* ctx, cancel := context.WithTimeout(context.Background(), 10*time.Second):
\* the one context handed to every constructor carries a deadline.
CtxHasDeadline == TRUE

\* A provider constructor (NewOidcAuthenticator, NewPlainOauthAuthenticator,
\* NewLdapAuthenticator) called with ctx: it returns an authenticator ("ok"),
\* fails ("error"), or waits for a provider that never answers; the wait ends
\* when the deadline of ctx passes ("timeout", which it reports as an error)
\* and never ends under a context without deadline ("hang"). With the
\* deadline passed it fails at once.
ConstructorOutcomes ==
    IF ctxExpired THEN {"error"}
    ELSE {"ok", "error"} \cup (IF CtxHasDeadline THEN {"timeout"} ELSE {"hang"})

\* setupAuthProviders returns err; NewHandler has not returned yet.
SetupFails(err) ==
    /\ setupPc' = "failed"
    /\ ret' = [ret EXCEPT !.err = err]

\* extUrl, err := url.Parse(h.config.Core.ExternalUrl)
SetupParseUrl ==
    /\ setupPc = "parse"
    /\ IF UrlParse(config.ExternalUrl).err
       THEN /\ SetupFails(SetupError("failed to parse external url", config.ExternalUrl))
            /\ UNCHANGED setupIdx
       ELSE /\ setupPc' = "oidc"
            /\ setupIdx' = 1
            /\ UNCHANGED ret
    /\ UNCHANGED <<config, oauthAuthenticators, ldapAuthenticators, ctxExpired, calls>>
    /\ UNCHANGED requestVars

\* Variant: the duplicate check is missing.
AlreadyRegistered_Never(registry, providerId) == FALSE

\* _, exists := registry[providerId]
AlreadyRegistered(registry, providerId) == providerId \in DOMAIN registry

\* The name a constructor failure is reported with: the OIDC loop uses
\* providerCfg.ProviderName, the OAuth and LDAP loops use providerId.
ReportedName(family, providerCfg, providerId) ==
    IF family = "oidc" THEN providerCfg ELSE providerId

\* One pass of a provider loop over `list`, registering into `registry`:
\* the loop exit, or the duplicate check, the constructor call and the
\* registration of entry i.
ProviderLoop(family, list, registry, nextPc) ==
    IF setupIdx > Len(list)
    THEN /\ setupPc' = nextPc
         /\ setupIdx' = 1
         /\ UNCHANGED <<oauthAuthenticators, ldapAuthenticators, ctxExpired, calls, ret>>
    ELSE LET providerCfg == list[setupIdx]
             providerId == ToLower(providerCfg)
         IN  IF AlreadyRegistered(registry, providerId)
             THEN /\ SetupFails(SetupError("already registerd", providerId))
                  /\ UNCHANGED <<setupIdx, oauthAuthenticators, ldapAuthenticators,
                                 ctxExpired, calls>>
             ELSE \E outcome \in ConstructorOutcomes :
                    /\ calls' = Append(calls, <<family, setupIdx>>)
                    /\ ctxExpired' = (ctxExpired \/ outcome = "timeout")
                    /\ IF outcome = "ok"
                       THEN /\ LET authenticator ==
                                     [ family |-> family, cfg |-> providerCfg,
                                       redirectUrl |->
                                         IF family = "ldap" THEN <<>>
                                         ELSE RedirectUrl(UrlParse(config.ExternalUrl),
                                                          providerId) ]
                                   added == registry @@ (providerId :> authenticator)
                               IN  IF family = "ldap"
                                   THEN /\ ldapAuthenticators' = added
                                        /\ UNCHANGED oauthAuthenticators
                                   ELSE /\ oauthAuthenticators' = added
                                        /\ UNCHANGED ldapAuthenticators
                            /\ setupIdx' = setupIdx + 1
                            /\ UNCHANGED <<setupPc, ret>>
                       ELSE IF outcome = "hang"
                       THEN /\ setupPc' = "hung"
                            /\ UNCHANGED <<setupIdx, oauthAuthenticators,
                                           ldapAuthenticators, ret>>
                       ELSE /\ SetupFails(SetupError("failed to setup " \o family,
                                                     ReportedName(family, providerCfg,
                                                                  providerId)))
                            /\ UNCHANGED <<setupIdx, oauthAuthenticators,
                                           ldapAuthenticators>>

\* for i := range h.config.Auth.OpenIDConnect { ... }
SetupOidc ==
    /\ setupPc = "oidc"
    /\ ProviderLoop("oidc", config.OpenIDConnect, oauthAuthenticators, "oauth")
    /\ UNCHANGED config
    /\ UNCHANGED requestVars

\* Variant: the OAuth loop ranges over the OIDC list.
SetupOauth_WrongList ==
    /\ setupPc = "oauth"
    /\ ProviderLoop("oauth", config.OpenIDConnect, oauthAuthenticators, "ldap")
    /\ UNCHANGED config
    /\ UNCHANGED requestVars

\* for i := range h.config.Auth.OAuth { ... }
SetupOauth ==
    /\ setupPc = "oauth"
    /\ ProviderLoop("oauth", config.OAuth, oauthAuthenticators, "ldap")
    /\ UNCHANGED config
    /\ UNCHANGED requestVars

\* Variant: the LDAP loop checks and fills the OIDC/OAuth registry.
SetupLdap_SharedNamespace ==
    /\ setupPc = "ldap"
    /\ ProviderLoop("ldap", config.Ldap, oauthAuthenticators, "ok")
    /\ UNCHANGED config
    /\ UNCHANGED requestVars

\* for i := range h.config.Auth.Ldap { ... }; return nil
SetupLdap ==
    /\ setupPc = "ldap"
    /\ ProviderLoop("ldap", config.Ldap, ldapAuthenticators, "ok")
    /\ UNCHANGED config
    /\ UNCHANGED requestVars

\* Variant: the error of setupAuthProviders is ignored.
NewHandlerReturn_IgnoresError ==
    /\ setupPc \in {"failed", "ok"}
    /\ ret' = [ret EXCEPT !.handler = "h"]
    /\ setupPc' = "returned"
    /\ UNCHANGED <<config, setupIdx, oauthAuthenticators, ldapAuthenticators,
                   ctxExpired, calls>>
    /\ UNCHANGED requestVars

\* err := h.setupAuthProviders(ctx); if err != nil { return nil, wrapped }; return h, nil
NewHandlerReturn ==
    /\ setupPc \in {"failed", "ok"}
    /\ ret' = [ret EXCEPT !.handler = IF setupPc = "failed" THEN "nil" ELSE "h"]
    /\ setupPc' = "returned"
    /\ UNCHANGED <<config, setupIdx, oauthAuthenticators, ldapAuthenticators,
                   ctxExpired, calls>>
    /\ UNCHANGED requestVars

EmptyConfig ==
    [ ExternalUrl |-> "https://vpn.example.com/portal",
      OpenIDConnect |-> <<>>, OAuth |-> <<>>, Ldap |-> <<>> ]

\* NewHandler returned a handler for the configuration without providers.
HandlerReady ==
    /\ config = EmptyConfig
    /\ setupPc = "returned"
    /\ setupIdx = 1
    /\ oauthAuthenticators = EmptyRegistry
    /\ ldapAuthenticators = EmptyRegistry
    /\ ctxExpired = FALSE
    /\ calls = <<>>
    /\ ret = [handler |-> "h", err |-> NoErr]

\* ----------------------------------------------------------- specifications

\* Request serving on a handler that was set up.
Init == InitRequests /\ HandlerReady


Next ==
    \/ \E r \in Requests, s \in Sessions :
         \/ \E t \in UnroutedTargets : NewRequest(r, s, t, "noroute", "")
         \/ \E t \in AdminTargets, scope \in Scopes : NewRequest(r, s, t, "guarded", scope)
    \/ \E r \in Requests : ChainContinue(r)
    \/ \E r \in Requests : MwGetData(r)
    \/ \E r \in Requests : MwNotLoggedIn(r)
    \/ \E r \in Requests : MwScopeAdmin(r)
    \/ \E r \in Requests : MwScopeOther(r)
    \/ \E r \in Requests : MwRevalidate(r)
    \/ \E r \in Requests : MwDestroy(r)
    \/ \E r \in Requests : MwNext(r)
    \/ \E r \in Requests : HandlerRender(r)
    \/ \E r \in Requests, code \in ErrorCodes : HandlerFail(r, code)
    \/ \E r \in Requests : NoRoute(r)
    \/ \E s \in Sessions, u \in Users, admin \in BOOLEAN : Login(s, u, admin)
    \/ \E s \in Sessions : Logout(s)
    \/ \E u \in Users, st \in UserStates : SetUserState(u, st)

Spec == Init /\ [][Next]_vars

\* NewHandler on every bounded configuration, before any request is served.
InitSetup ==
    /\ InitRequests
    /\ \E u \in ExternalUrls :
       \E oidc \in SeqsUpTo(MaxEntries) :
       \E oauth \in SeqsUpTo(MaxEntries - Len(oidc)) :
       \E ldap \in SeqsUpTo(MaxEntries - Len(oidc) - Len(oauth)) :
         InitSetupState([ ExternalUrl |-> u, OpenIDConnect |-> oidc,
                          OAuth |-> oauth, Ldap |-> ldap ])

NextSetup ==
    \/ SetupParseUrl
    \/ SetupOidc
    \/ SetupOauth
    \/ SetupLdap
    \/ NewHandlerReturn

SpecSetup == InitSetup /\ [][NextSetup]_vars

\* NewHandler runs on one goroutine at startup: a step that can be taken is
\* taken.
SpecSetupFair == SpecSetup /\ WF_vars(NextSetup)

\* Two requests served at the same time, each on its own goroutine, sharing
\* one session. The session is one a client can hold: never logged in, or
\* logged in by an earlier login as administrator or not; the user's record
\* in the backend is in any of its states.
ConcRequests == {"r1", "r2"}

ConcTargets == {[path |-> "/admin/", query |-> ""]}

ConcSessions ==
    {ZeroSession} \cup
    { [ZeroSession EXCEPT !.LoggedIn = TRUE, !.UserIdentifier = u, !.IsAdmin = a] :
        u \in Users, a \in BOOLEAN }

InitConc ==
    /\ session \in [Sessions -> ConcSessions]
    /\ userState \in [Users -> UserStates]
    /\ hist = [s \in Sessions |-> NoHist]
    /\ pc = [r \in ConcRequests |-> "idle"]
    /\ req = [r \in ConcRequests |-> IdleRequest]
    /\ HandlerReady

NextConc ==
    \/ \E r \in ConcRequests, s \in Sessions, t \in ConcTargets, scope \in Scopes :
         NewRequest(r, s, t, "guarded", scope)
    \/ \E r \in ConcRequests : ChainContinue(r)
    \/ \E r \in ConcRequests : MwGetData(r)
    \/ \E r \in ConcRequests : MwNotLoggedIn(r)
    \/ \E r \in ConcRequests : MwScopeAdmin(r)
    \/ \E r \in ConcRequests : MwScopeOther(r)
    \/ \E r \in ConcRequests : MwRevalidate(r)
    \/ \E r \in ConcRequests : MwDestroy(r)
    \/ \E r \in ConcRequests : MwNext(r)
    \/ \E r \in ConcRequests : HandlerRender(r)
    \/ \E s \in Sessions, u \in Users, admin \in BOOLEAN : Login(s, u, admin)

SpecConc == InitConc /\ [][NextConc]_vars

\* ------------------------------------------------------------------ claims

\* A guarded request whose handling is complete.
Done(r) == pc[r] = "done" /\ req[r].route = "guarded"

\* The scope of the request's route is satisfied by the session it read.
ScopeSatisfied(r) == req[r].scope = "" \/ req[r].read.IsAdmin

OracleFailures == {"not_found", "inactive", "backend_error"}

\* The request went down the chain: the protected handler ran once and the
\* middleware wrote no response and touched no session.
Passed(r) ==
    /\ req[r].handled = 1
    /\ req[r].mwResp = NoResponse
    /\ ~req[r].aborted
    /\ req[r].destroys = 0

\* The request was rejected as an invalid session: the session was destroyed,
\* the chain aborted, the fixed 401 message written, the handler not reached.
Revoked(r) ==
    /\ req[r].mwResp = SessionNoLongerAvailable
    /\ req[r].destroys = 1
    /\ req[r].stored = ZeroSession
    /\ req[r].aborted
    /\ req[r].handled = 0
    /\ req[r].hResp = NoResponse

\* The request was sent to the login page: deep-link stored and persisted,
\* chain aborted, neither the handler nor the oracle reached.
SentToLogin(r) ==
    /\ req[r].mwResp = LoginRedirect
    /\ req[r].data = [req[r].read EXCEPT !.DeepLink = RequestURI(req[r].target)]
    /\ req[r].stored = req[r].data
    /\ req[r].sets = 1
    /\ req[r].aborted
    /\ req[r].handled = 0
    /\ req[r].hResp = NoResponse
    /\ req[r].queries = 0
    /\ req[r].destroys = 0

\* C1: a guarded request that read a session with the logged-in flag false
\* (the zero session of a new client included) has the request URI stored as
\* the session's deep-link and persisted, the chain aborted (no handler run,
\* no oracle query) and the redirect to /auth/login as its response.
C1_NotLoggedInRedirects ==
    \A r \in Requests : Done(r) /\ ~req[r].read.LoggedIn => SentToLogin(r)

C1_Witness ==
    \E r \in Requests :
      /\ Done(r)
      /\ req[r].read = ZeroSession
      /\ req[r].scope = "admin"
      /\ req[r].target.query = "page=2"
      /\ req[r].stored.DeepLink = <<"/admin/users", "page=2">>
      /\ req[r].mwResp = LoginRedirect

\* C2: an admin-scoped request that read a logged-in session that is not
\* administrator is answered 401, nothing is answered with a redirect, and the
\* protected handler is not reached.
C2_NonAdminUnauthorized ==
    \A r \in Requests :
      Done(r) /\ req[r].scope = "admin" /\ req[r].read.LoggedIn /\ ~req[r].read.IsAdmin
        => /\ req[r].mwResp.status = StatusUnauthorized
           /\ req[r].hResp.status # StatusSeeOther
           /\ req[r].aborted
           /\ req[r].handled = 0

C2_Witness ==
    \E r \in Requests :
      /\ Done(r)
      /\ req[r].scope = "admin"
      /\ req[r].read.LoggedIn /\ ~req[r].read.IsAdmin
      /\ req[r].mwResp = NotEnoughPermissions

\* C3: an admin-scoped request of a logged-in administrator whose user the
\* oracle reports inactive is answered 401 "session no longer available" and
\* the session is destroyed; from then on, until a login writes the session
\* again, the stored session is not logged in, and every request that reads it
\* is sent to the login page without the oracle being asked, whatever the
\* backend says about the user by then.
C3_InactiveDestroysSession ==
    /\ \A r \in Requests :
         Done(r) /\ req[r].scope = "admin" /\ req[r].read.LoggedIn
                 /\ req[r].read.IsAdmin /\ req[r].answer = "inactive"
           => Revoked(r)
    /\ \A s \in Sessions : hist[s] = "revoked" => session[s].LoggedIn = FALSE
    /\ \A r \in Requests :
         Done(r) /\ req[r].seen = "revoked" => ~req[r].read.LoggedIn /\ SentToLogin(r)

C3_Witness ==
    \E r \in Requests :
      /\ Done(r)
      /\ req[r].seen = "revoked"
      /\ hist[req[r].sess] = "revoked"
      /\ req[r].scope = "admin"
      /\ req[r].mwResp = LoginRedirect
      /\ \A u \in Users : userState[u] = "active"

\* C4: an admin-scoped request of a logged-in administrator whose user the
\* oracle reports active reaches the protected handler exactly once, and the
\* middleware writes neither a redirect nor a 401; no request reaches the
\* handler twice.
C4_ActiveAdminPassesOnce ==
    /\ \A r \in Requests :
         Done(r) /\ req[r].scope = "admin" /\ req[r].read.LoggedIn
                 /\ req[r].read.IsAdmin /\ req[r].answer = "ok"
           => Passed(r)
    /\ \A r \in Requests : req[r].handled <= 1

C4_Witness ==
    \E r \in Requests :
      /\ Done(r)
      /\ req[r].scope = "admin"
      /\ req[r].read.LoggedIn /\ req[r].read.IsAdmin
      /\ req[r].answer = "ok"
      /\ req[r].handled = 1
      /\ req[r].hResp = HandlerRendered

\* C5: in every reachable state, the protected handler of a guarded request
\* has run only if that request read a logged-in session, its scope was
\* satisfied, and its own oracle query for the session's user identifier
\* returned without error.
C5_HandlerNeverSeesFailure ==
    \A r \in Requests :
      req[r].route = "guarded" /\ req[r].handled >= 1
        => /\ req[r].read.LoggedIn
           /\ ScopeSatisfied(r)
           /\ req[r].queries = 1
           /\ req[r].asked = req[r].read.UserIdentifier
           /\ req[r].answer = "ok"
           /\ req[r].mwResp = NoResponse

C5_Witness ==
    \E r \in Requests :
      /\ pc[r] = "handler"
      /\ req[r].route = "guarded"
      /\ req[r].handled = 1
      /\ req[r].scope = ""
      /\ ~req[r].read.IsAdmin

\* C6: whichever error the oracle returns (user not found, user inactive, any
\* other backend error), a logged-in request that satisfies the scope has its
\* session destroyed, does not reach the handler, and gets the one fixed 401
\* "session no longer available" response.
C6_RevalidationFailsClosed ==
    \A r \in Requests :
      Done(r) /\ req[r].read.LoggedIn /\ ScopeSatisfied(r)
              /\ req[r].answer \in OracleFailures
        => Revoked(r)

C6_Witness ==
    \E r \in Requests :
      /\ Done(r)
      /\ req[r].read.LoggedIn /\ ScopeSatisfied(r)
      /\ req[r].answer = "backend_error"
      /\ userState[req[r].read.UserIdentifier] = "active"
      /\ req[r].mwResp = SessionNoLongerAvailable

\* C7: every guarded request that is logged in and satisfies the scope asks
\* the oracle exactly once, about the session's user, and its outcome is
\* decided by that answer alone: pass on "ok", 401 and a destroyed session on
\* any error, also when an earlier request of the same login has passed.
C7_ValidityNeverCached ==
    \A r \in Requests :
      Done(r) /\ req[r].read.LoggedIn /\ ScopeSatisfied(r)
        => /\ req[r].queries = 1
           /\ req[r].asked = req[r].read.UserIdentifier
           /\ \/ req[r].answer = "ok" /\ Passed(r)
              \/ req[r].answer \in OracleFailures /\ Revoked(r)

C7_Witness ==
    \E r \in Requests :
      /\ Done(r)
      /\ req[r].seen = "passed"
      /\ req[r].read.LoggedIn /\ ScopeSatisfied(r)
      /\ req[r].answer = "inactive"
      /\ req[r].mwResp = SessionNoLongerAvailable
      /\ req[r].stored = ZeroSession

\* C8: for a logged-in session, a middleware with scope "" lets the request
\* pass when the oracle answers "ok", administrator or not; a middleware with
\* any non-empty scope lets it pass only for an administrator, and answers
\* everyone else 401 "not enough permissions" without asking the oracle.
C8_ScopeIsBinary ==
    \A r \in Requests :
      Done(r) /\ req[r].read.LoggedIn
        => /\ req[r].scope = "" /\ req[r].answer = "ok" => Passed(r)
           /\ req[r].scope # "" /\ req[r].read.IsAdmin /\ req[r].answer = "ok"
                => Passed(r)
           /\ req[r].scope # "" /\ ~req[r].read.IsAdmin
                => /\ req[r].mwResp = NotEnoughPermissions
                   /\ req[r].aborted
                   /\ req[r].handled = 0
                   /\ req[r].queries = 0
                   /\ req[r].destroys = 0

C8_Witness ==
    \E r \in Requests :
      /\ Done(r)
      /\ req[r].scope = "user"
      /\ req[r].read.LoggedIn /\ ~req[r].read.IsAdmin
      /\ userState[req[r].read.UserIdentifier] = "active"
      /\ req[r].mwResp = NotEnoughPermissions

\* Two names that are equal when case is ignored.
SameIgnoringCase(a, b) == a = b \/ {a, b} = {"corp", "Corp"}

\* Some entry of the list repeats an earlier one, case ignored.
HasDuplicate(list) ==
    \E i, j \in 1..Len(list) : i < j /\ SameIgnoringCase(list[i], list[j])

\* The first entry of the list that repeats an earlier one.
FirstDuplicate(list) ==
    list[CHOOSE j \in 1..Len(list) :
           /\ \E i \in 1..(j - 1) : SameIgnoringCase(list[i], list[j])
           /\ \A k \in 1..(j - 1) :
                ~\E i \in 1..(k - 1) : SameIgnoringCase(list[i], list[k])]

LowerCased(name) == IF name \in {"corp", "Corp"} THEN "corp" ELSE name

\* The OIDC and OAuth entries in the order setup visits them: one namespace.
OauthEntries(cfg) == cfg.OpenIDConnect \o cfg.OAuth

\* Every constructor invoked so far returned an authenticator.
AllCallsSucceeded ==
    Len(calls) = Cardinality(DOMAIN oauthAuthenticators)
                   + Cardinality(DOMAIN ldapAuthenticators)

DuplicateError(name) == SetupError("already registerd", LowerCased(name))

\* C9 as stated: whenever two OIDC/OAuth entries share a name (case ignored),
\* NewHandler returns no handler and the duplicate-provider error.
C9_DuplicateAlwaysDuplicateError ==
    setupPc = "returned" /\ HasDuplicate(OauthEntries(config))
      => /\ ret.handler = "nil"
         /\ ret.err.kind = "already registerd"

\* C9 amended: whenever two OIDC/OAuth entries share a name (case ignored),
\* NewHandler returns no handler (so no registry reaches the caller) and an
\* error; the error is the duplicate-provider error naming the lower-cased
\* name when the base URL parses and every constructor invoked before the
\* repeated entry succeeds, and otherwise the URL error or the failing
\* constructor's error; no LDAP constructor is invoked.
C9_DuplicateOauthFailsSetup ==
    setupPc = "returned" /\ HasDuplicate(OauthEntries(config))
      => /\ ret.handler = "nil"
         /\ ret.err # NoErr
         /\ \A k \in 1..Len(calls) : calls[k][1] # "ldap"
         /\ ldapAuthenticators = EmptyRegistry
         /\ IF UrlParse(config.ExternalUrl).err
            THEN ret.err.kind = "failed to parse external url"
            ELSE IF AllCallsSucceeded
            THEN ret.err = DuplicateError(FirstDuplicate(OauthEntries(config)))
            ELSE ret.err.kind \in {"failed to setup oidc", "failed to setup oauth"}

C9_Witness ==
    /\ setupPc = "returned"
    /\ config.OpenIDConnect = <<"corp">>
    /\ config.OAuth = <<"Corp">>
    /\ ret = [handler |-> "nil", err |-> SetupError("already registerd", "corp")]
    /\ DOMAIN oauthAuthenticators = {"corp"}

\* C10 as stated: whenever two LDAP entries share a URL (case ignored),
\* NewHandler returns no handler and the duplicate-provider error.
C10_LdapDuplicateAlwaysDuplicateError ==
    setupPc = "returned" /\ HasDuplicate(config.Ldap)
      => /\ ret.handler = "nil"
         /\ ret.err.kind = "already registerd"

\* C10 amended: whenever two LDAP entries share a URL (case ignored),
\* NewHandler returns no handler and an error; when the base URL parses, no
\* OIDC/OAuth name is repeated and every constructor invoked before the
\* repeated LDAP entry succeeds, the error is the same duplicate-provider
\* error as for OIDC/OAuth, naming the lower-cased URL.
C10_DuplicateLdapFailsSetup ==
    setupPc = "returned" /\ HasDuplicate(config.Ldap)
      => /\ ret.handler = "nil"
         /\ ret.err # NoErr
         /\ ( /\ ~UrlParse(config.ExternalUrl).err
              /\ ~HasDuplicate(OauthEntries(config))
              /\ AllCallsSucceeded )
            => ret.err = DuplicateError(FirstDuplicate(config.Ldap))

C10_Witness ==
    /\ setupPc = "returned"
    /\ config.OpenIDConnect = <<"corp">>
    /\ config.Ldap = <<"Corp", "corp">>
    /\ ret = [handler |-> "nil", err |-> SetupError("already registerd", "corp")]
    /\ DOMAIN ldapAuthenticators = {"corp"}
    /\ DOMAIN oauthAuthenticators = {"corp"}

\* An LDAP entry's URL and an OIDC/OAuth entry's name are the same string,
\* case ignored.
SharedAcrossNamespaces(cfg) ==
    \E i \in 1..Len(cfg.Ldap), j \in 1..Len(OauthEntries(cfg)) :
      SameIgnoringCase(cfg.Ldap[i], OauthEntries(cfg)[j])

\* Every LDAP entry and every OIDC/OAuth entry that share a string are both
\* registered, the first in the LDAP registry, the second in the OIDC/OAuth one.
BothRegistered(cfg) ==
    \A i \in 1..Len(cfg.Ldap), j \in 1..Len(OauthEntries(cfg)) :
      SameIgnoringCase(cfg.Ldap[i], OauthEntries(cfg)[j])
        => /\ LowerCased(cfg.Ldap[i]) \in DOMAIN ldapAuthenticators
           /\ ldapAuthenticators[LowerCased(cfg.Ldap[i])].family = "ldap"
           /\ ldapAuthenticators[LowerCased(cfg.Ldap[i])].cfg = cfg.Ldap[i]
           /\ LowerCased(OauthEntries(cfg)[j]) \in DOMAIN oauthAuthenticators
           /\ oauthAuthenticators[LowerCased(OauthEntries(cfg)[j])].family
                \in {"oidc", "oauth"}
           /\ oauthAuthenticators[LowerCased(OauthEntries(cfg)[j])].cfg
                = OauthEntries(cfg)[j]

\* C11 as stated: when an LDAP URL and an OIDC/OAuth name are the same string
\* (case ignored), nothing else is duplicated and every constructor succeeds,
\* setup succeeds and both authenticators are registered.
C11_SharedStringAlwaysRegistersBoth ==
    ( /\ setupPc = "returned"
      /\ SharedAcrossNamespaces(config)
      /\ ~HasDuplicate(OauthEntries(config))
      /\ ~HasDuplicate(config.Ldap)
      /\ AllCallsSucceeded )
      => /\ ret = [handler |-> "h", err |-> NoErr]
         /\ BothRegistered(config)

\* C11 amended: when the base URL parses, an LDAP URL and an OIDC/OAuth name
\* are the same string (case ignored), nothing else is duplicated and every
\* constructor succeeds, NewHandler returns a handler and both authenticators
\* are registered, each in its own registry.
C11_LdapNamespaceSeparate ==
    ( /\ setupPc = "returned"
      /\ ~UrlParse(config.ExternalUrl).err
      /\ SharedAcrossNamespaces(config)
      /\ ~HasDuplicate(OauthEntries(config))
      /\ ~HasDuplicate(config.Ldap)
      /\ AllCallsSucceeded )
      => /\ ret = [handler |-> "h", err |-> NoErr]
         /\ BothRegistered(config)

C11_Witness ==
    /\ setupPc = "returned"
    /\ config.OAuth = <<"Corp">>
    /\ config.Ldap = <<"corp">>
    /\ ret = [handler |-> "h", err |-> NoErr]
    /\ ldapAuthenticators["corp"].cfg = "corp"
    /\ oauthAuthenticators["corp"].cfg = "Corp"

\* The registry holds exactly one authenticator per entry of the list, of
\* the given family, under the entry's lower-cased identifier.
HoldsEntries(registry, family, list) ==
    \A i \in 1..Len(list) :
      /\ LowerCased(list[i]) \in DOMAIN registry
      /\ registry[LowerCased(list[i])].family = family
      /\ registry[LowerCased(list[i])].cfg = list[i]

CompleteRegistries(cfg) ==
    /\ HoldsEntries(oauthAuthenticators, "oidc", cfg.OpenIDConnect)
    /\ HoldsEntries(oauthAuthenticators, "oauth", cfg.OAuth)
    /\ HoldsEntries(ldapAuthenticators, "ldap", cfg.Ldap)
    /\ Cardinality(DOMAIN oauthAuthenticators) = Len(OauthEntries(cfg))
    /\ Cardinality(DOMAIN ldapAuthenticators) = Len(cfg.Ldap)

\* C12: NewHandler returns either an error and no handler, or a handler, no
\* error and registries holding exactly one authenticator per configured
\* entry under its lower-cased identifier; it returns the error whenever the
\* base URL is malformed, an identifier is repeated in its namespace or a
\* constructor failed.
C12_NoPartialRegistry ==
    setupPc = "returned"
      => /\ \/ ret.handler = "nil" /\ ret.err # NoErr
            \/ /\ ret = [handler |-> "h", err |-> NoErr]
               /\ CompleteRegistries(config)
         /\ ( \/ UrlParse(config.ExternalUrl).err
              \/ HasDuplicate(OauthEntries(config))
              \/ HasDuplicate(config.Ldap)
              \/ ~AllCallsSucceeded )
            => ret.handler = "nil" /\ ret.err # NoErr

C12_Witness ==
    /\ setupPc = "returned"
    /\ ret = [handler |-> "h", err |-> NoErr]
    /\ config.OpenIDConnect = <<"Corp">>
    /\ config.OAuth = <<"lab">>
    /\ config.Ldap = <<"Corp">>
    /\ DOMAIN oauthAuthenticators = {"corp", "lab"}
    /\ DOMAIN ldapAuthenticators = {"corp"}

\* The configured entries in the order setup visits them: <<family, index>>.
VisitOrder(cfg) ==
    LET a == Len(cfg.OpenIDConnect)
        b == Len(cfg.OAuth)
        c == Len(cfg.Ldap)
    IN  [ k \in 1..(a + b + c) |->
            IF k <= a THEN <<"oidc", k>>
            ELSE IF k <= a + b THEN <<"oauth", k - a>>
            ELSE <<"ldap", k - a - b>> ]

\* The name or URL of the entry <<family, index>>.
EntryName(cfg, e) ==
    IF e[1] = "oidc" THEN cfg.OpenIDConnect[e[2]]
    ELSE IF e[1] = "oauth" THEN cfg.OAuth[e[2]]
    ELSE cfg.Ldap[e[2]]

\* The k-th visited entry repeats an earlier entry of its own namespace.
RepeatsEarlier(cfg, k) ==
    LET n == Len(OauthEntries(cfg))
    IN  IF k <= n
        THEN \E i \in 1..(k - 1) :
               SameIgnoringCase(OauthEntries(cfg)[i], OauthEntries(cfg)[k])
        ELSE \E i \in 1..(k - n - 1) :
               SameIgnoringCase(cfg.Ldap[i], cfg.Ldap[k - n])

Registered ==
    Cardinality(DOMAIN oauthAuthenticators) + Cardinality(DOMAIN ldapAuthenticators)

ProviderSetupFailed ==
    {"failed to setup oidc", "failed to setup oauth", "failed to setup ldap"}

\* What holds at every moment once the setup timeout has expired inside a
\* constructor: setup has failed with that constructor's error, the
\* constructor was the last one invoked, and no handler is returned.
TimeoutStopsSetup ==
    ctxExpired
      => /\ setupPc \in {"failed", "returned"}
         /\ ret.err.kind \in ProviderSetupFailed
         /\ ret.handler # "h"
         /\ Len(calls) >= 1
         /\ Registered = Len(calls) - 1
         /\ ret.err.kind = "failed to setup " \o calls[Len(calls)][1]
         /\ LowerCased(ret.err.name) = LowerCased(EntryName(config, calls[Len(calls)]))

NoConstructorInvokedTwice ==
    \A i, j \in 1..Len(calls) : i # j => calls[i] # calls[j]

\* C16: provider setup always terminates, with a complete registry or with
\* an error; once the setup timeout expires inside a constructor, setup fails
\* with a provider-setup error, no further constructor is invoked, and no
\* constructor is ever invoked twice.
C16_SetupCannotStall ==
    /\ <>( /\ setupPc = "returned"
           /\ \/ ret.handler = "nil" /\ ret.err # NoErr
              \/ ret.handler = "h" /\ CompleteRegistries(config) )
    /\ [](TimeoutStopsSetup /\ NoConstructorInvokedTwice)

C16_Witness ==
    /\ setupPc = "returned"
    /\ ctxExpired
    /\ Len(VisitOrder(config)) = 3
    /\ calls = <<<<"oidc", 1>>, <<"oauth", 1>>>>
    /\ ret.handler = "nil"
    /\ ret.err.kind = "failed to setup oauth"
    /\ ldapAuthenticators = EmptyRegistry

\* C20: setup is ordered and fail-fast. The constructors invoked so far are
\* those of a prefix of the entries in the order OIDC, OAuth, LDAP (each in
\* configuration order), none of them of an entry that repeats an earlier
\* identifier of its namespace; a failure is that of the first failing
\* entry - every entry before it is registered - and it is either the
\* constructor error of the last entry invoked or the duplicate error of
\* the entry after it, whose constructor and all later ones are not invoked.
C20_OrderedFailFast ==
    /\ Len(calls) <= Len(VisitOrder(config))
    /\ \A k \in 1..Len(calls) :
         /\ calls[k] = VisitOrder(config)[k]
         /\ ~RepeatsEarlier(config, k)
    /\ (setupPc \in {"failed", "returned"} /\ ret.err # NoErr)
         => IF UrlParse(config.ExternalUrl).err
            THEN /\ calls = <<>>
                 /\ ret.err.kind = "failed to parse external url"
            ELSE IF AllCallsSucceeded
            THEN /\ Len(calls) < Len(VisitOrder(config))
                 /\ RepeatsEarlier(config, Len(calls) + 1)
                 /\ ret.err = DuplicateError(
                        EntryName(config, VisitOrder(config)[Len(calls) + 1]))
            ELSE /\ Registered = Len(calls) - 1
                 /\ ret.err.kind = "failed to setup " \o calls[Len(calls)][1]
                 /\ LowerCased(ret.err.name)
                      = LowerCased(EntryName(config, calls[Len(calls)]))
    /\ (setupPc \in {"ok", "returned"} /\ ret.err = NoErr)
         => Len(calls) = Len(VisitOrder(config))

C20_Witness ==
    /\ setupPc = "returned"
    /\ ~ctxExpired
    /\ config.OpenIDConnect = <<"lab">>
    /\ config.OAuth = <<"corp">>
    /\ config.Ldap = <<"corp">>
    /\ calls = <<<<"oidc", 1>>, <<"oauth", 1>>>>
    /\ ret = [handler |-> "nil", err |-> SetupError("failed to setup oauth", "corp")]
    /\ DOMAIN oauthAuthenticators = {"lab"}

\* The request ended in HandleError.
SentToOops(r) == req[r].hResp = OopsRedirect

\* C13: whenever HandleError ran, the payload persisted in the session
\* carries the code, message and details it was called with; its path is "/"
\* when the code is 404, whatever the request path, and the request path
\* otherwise; the session was written with SetData and the response is the
\* redirect to /oops. An unknown path always ends this way with code 404.
C13_ErrorPathRule ==
    \A r \in Requests :
      /\ req[r].errCall # NoErrorCall <=> SentToOops(r)
      /\ pc[r] = "done" /\ req[r].route = "noroute"
           => SentToOops(r) /\ req[r].errCall.code = StatusNotFound
      /\ SentToOops(r)
           => /\ req[r].stored.Error.Code = req[r].errCall.code
              /\ req[r].stored.Error.Message = req[r].errCall.message
              /\ req[r].stored.Error.Details = req[r].errCall.details
              /\ req[r].stored.Error.Path =
                   IF req[r].errCall.code = StatusNotFound THEN "/"
                   ELSE req[r].target.path
              /\ req[r].sets >= 1

C13_Witness ==
    \E r \in Requests :
      /\ pc[r] = "done"
      /\ SentToOops(r)
      /\ req[r].target.path = "/admin/users"
      /\ req[r].errCall.code = StatusNotFound
      /\ req[r].stored.Error.Path = "/"
      /\ session[req[r].sess].Error = req[r].stored.Error

\* C14: a HandleError call replaces whatever error was pending in the session
\* by its own payload and writes the logged-in flag, the user identifier, the
\* admin flag and the deep-link back as it read them; until the next call the
\* session's pending error is that payload or none.
C14_HandleErrorFrame ==
    \A r \in Requests :
      SentToOops(r)
        => /\ req[r].stored.LoggedIn = req[r].errRead.LoggedIn
           /\ req[r].stored.UserIdentifier = req[r].errRead.UserIdentifier
           /\ req[r].stored.IsAdmin = req[r].errRead.IsAdmin
           /\ req[r].stored.DeepLink = req[r].errRead.DeepLink
           /\ req[r].stored.Error # NoError
           /\ req[r].stored.Error.Code = req[r].errCall.code
           /\ session[req[r].sess].Error \in {NoError, req[r].stored.Error}

C14_Witness ==
    \E r \in Requests :
      /\ pc[r] = "done"
      /\ SentToOops(r)
      /\ req[r].errRead.Error # NoError
      /\ req[r].errRead.Error # req[r].stored.Error
      /\ req[r].errRead.LoggedIn /\ req[r].errRead.IsAdmin
      /\ req[r].errRead.DeepLink # NoDeepLink
      /\ session[req[r].sess] = req[r].stored
      /\ session[req[r].sess].LoggedIn

\* C17: the middleware's checks run in the order logged-in, scope,
\* revalidation, and the first that matches decides: the oracle is queried
\* only for a logged-in session that satisfies the scope, the session is
\* destroyed only after a failed query, and a logged-in non-administrator on
\* a route with a non-empty scope gets 401 "not enough permissions" with no
\* oracle query and no session write, whatever the oracle would answer.
C17_ChecksInOrder ==
    \A r \in Requests :
      /\ req[r].queries > 0
           => /\ req[r].read.LoggedIn
              /\ ScopeSatisfied(r)
              /\ req[r].queries = 1
      /\ req[r].destroys > 0
           => req[r].queries = 1 /\ req[r].answer \in OracleFailures
      /\ (Done(r) /\ ~req[r].read.LoggedIn)
           => req[r].mwResp = LoginRedirect
      /\ (Done(r) /\ req[r].read.LoggedIn /\ ~ScopeSatisfied(r))
           => /\ req[r].mwResp = NotEnoughPermissions
              /\ req[r].queries = 0
              /\ req[r].asked = NoUser
              /\ req[r].sets = 0
              /\ req[r].destroys = 0

C17_Witness ==
    \E r \in Requests :
      /\ Done(r)
      /\ req[r].scope = "admin"
      /\ req[r].read.LoggedIn /\ ~req[r].read.IsAdmin
      /\ userState[req[r].read.UserIdentifier] = "inactive"
      /\ req[r].mwResp = NotEnoughPermissions
      /\ req[r].queries = 0
      /\ session[req[r].sess] = req[r].read

\* SetData calls the middleware itself made for the request.
MwSets(r) == req[r].sets - (IF SentToOops(r) THEN 1 ELSE 0)

\* The one branch the middleware takes for the session it read and the answer
\* of the oracle.
BranchOf(read, scope, answer) ==
    IF ~read.LoggedIn THEN LoginRedirect
    ELSE IF scope # "" /\ ~read.IsAdmin THEN NotEnoughPermissions
    ELSE IF answer = "ok" THEN NoResponse
    ELSE SessionNoLongerAvailable

\* C18: a guarded request ends in exactly one of the four outcomes. The
\* middleware calls SetData only when it redirects to the login page, once,
\* writing back the session it read with only the deep-link replaced; it
\* calls DestroyData only when revalidation failed, once; when it answers
\* "not enough permissions" or passes the request on it writes nothing.
C18_BranchEffects ==
    \A r \in Requests :
      Done(r)
        => /\ req[r].mwResp = BranchOf(req[r].read, req[r].scope, req[r].answer)
           /\ MwSets(r) = (IF req[r].mwResp = LoginRedirect THEN 1 ELSE 0)
           /\ req[r].destroys =
                (IF req[r].mwResp = SessionNoLongerAvailable THEN 1 ELSE 0)
           /\ req[r].mwResp = LoginRedirect
                => req[r].stored =
                     [req[r].read EXCEPT !.DeepLink = RequestURI(req[r].target)]
           /\ req[r].mwResp = NotEnoughPermissions
                => req[r].sets = 0 /\ req[r].stored = ZeroSession
           /\ req[r].mwResp = NoResponse
                => req[r].handled = 1

C18_Witness ==
    \E r \in Requests :
      /\ Done(r)
      /\ req[r].mwResp = LoginRedirect
      /\ req[r].read.Error # NoError
      /\ req[r].stored.Error = req[r].read.Error
      /\ req[r].read.DeepLink # NoDeepLink
      /\ req[r].stored.DeepLink # req[r].read.DeepLink
      /\ req[r].destroys = 0

\* The request is inside authenticationMiddleware.
InMiddleware(r) == pc[r] \in {"mw", "mw_check", "mw_destroy", "mw_next"}

\* C19: no step of the middleware turns a logged-in session into a session
\* that is not logged in, except the DestroyData after a failed
\* revalidation; in particular the SetData of the not-logged-in branch does
\* not undo a login that completed after the request's GetData.
C19_LoginNeverLost ==
    [][ \A r \in Requests :
          ( /\ InMiddleware(r)
            /\ pc'[r] # pc[r]
            /\ session[req[r].sess].LoggedIn
            /\ ~session'[req[r].sess].LoggedIn )
            => /\ pc[r] = "mw_destroy"
               /\ req[r].answer \in OracleFailures ]_vars

\* The branch the middleware would take on reading this session now, before
\* any oracle query.
PendingBranch(data, scope) ==
    IF ~data.LoggedIn THEN "redirect"
    ELSE IF scope # "" /\ ~data.IsAdmin THEN "unauthorized"
    ELSE "revalidate"

\* Request q takes a step while request r waits for its GetData.
StepsBeside(q, r) == q # r /\ pc'[q] # pc[q] /\ pc[r] = "mw"

\* C15 as stated: no step of one request changes the outcome of another
\* request, also when they share a session - whether the step comes before
\* or after the other request's GetData, that request takes the same branch.
C15_NoOrderingDependency ==
    [][ \A r, q \in ConcRequests :
          StepsBeside(q, r)
            => PendingBranch(session'[req[r].sess], req[r].scope)
                 = PendingBranch(session[req[r].sess], req[r].scope) ]_vars

\* C15 amended: a request's outcome is decided by the session its own
\* GetData returned, the scope of its route and the answer to its own oracle
\* query about the identifier it read; no step of another request changes a
\* request's local state, and the only steps of another request that change
\* the branch a request waiting for its GetData will take are, on the same
\* session, the DestroyData after a failed revalidation and the SetData of a
\* request that read the session before a login; after either the waiting
\* request is redirected to the login page.
C15_DependsOnlyOnOwnReads ==
    /\ [](\A r \in ConcRequests :
            /\ Done(r) => req[r].mwResp =
                            BranchOf(req[r].read, req[r].scope, req[r].answer)
            /\ req[r].queries > 0 => req[r].asked = req[r].read.UserIdentifier)
    /\ [][ \A r, q \in ConcRequests :
             /\ (q # r /\ pc'[q] # pc[q])
                  => req'[r] = req[r] /\ pc'[r] = pc[r]
             /\ ( /\ StepsBeside(q, r)
                  /\ PendingBranch(session'[req[r].sess], req[r].scope)
                       # PendingBranch(session[req[r].sess], req[r].scope) )
                  => /\ req[q].sess = req[r].sess
                     /\ \/ pc[q] = "mw_destroy"
                        \/ pc[q] = "mw_check" /\ ~req[q].read.LoggedIn
                     /\ PendingBranch(session'[req[r].sess], req[r].scope)
                          = "redirect" ]_vars

C15_Witness ==
    /\ pc["r1"] = "mw"
    /\ pc["r2"] = "chain"
    /\ req["r1"].sess = req["r2"].sess
    /\ req["r2"].read.LoggedIn
    /\ req["r2"].mwResp = SessionNoLongerAvailable
    /\ session[req["r1"].sess] = ZeroSession

====
